---- MODULE Spec2Model ----
(***************************************************************************)
(* AirLinker: two browser clients negotiate a WebRTC data channel through *)
(* a signaling relay and move one file over it in 16 KiB chunks.          *)
(*                                                                         *)
(* Client "A" is the page on which the user picks a file (startSender),   *)
(* client "B" the page opened from the join link (startReceiver).  Both   *)
(* run the same script, so every module-level variable of src/script.js   *)
(* (ws, pc, dc, sessionId, fileToSend, receivedChunks) is a function over *)
(* Clients.  The browser (WebSocket, RTCPeerConnection, RTCDataChannel,   *)
(* Blob, timers) is modelled by what the web platform specifies for the   *)
(* calls the script makes; the relay is not part of src/ and is modelled  *)
(* from the specification's description of it.                             *)
(***************************************************************************)
EXTENDS Integers, Sequences, FiniteSets, TLC

\* ------------------------------------------------------------------ bounds
MaxChunks == 6          \* files of up to MaxChunks full chunks plus a remainder
MaxSendFailures == 1    \* dc.send() may throw this many times during one transfer
MaxStrayEnvelopes == 1  \* envelopes reaching a client beyond the relay's forwarding
MaxStrayFrames == 1     \* channel messages reaching a client beyond the peer's sendFile

\* --------------------------------------------------------------- constants
CHUNK_SIZE == 16 * 1024

BufferThreshold == 5 * CHUNK_SIZE

Clients == {"A", "B"}

Peer(c) == IF c = "A" THEN "B" ELSE "A"

\* Session ids on the relay: "s1" stands for the token startSender draws with
\* Math.random().toString(36).slice(2, 9), "s2" for any other session's id.
SessionIds == {"s1", "s2"}

FreshSessionIds == {"s1"}

NoSession == "none"

\* ------------------------------------------------------------ small helpers
Min(a, b) == IF a < b THEN a ELSE b

RECURSIVE SumLen(_)
SumLen(s) == IF s = <<>> THEN 0 ELSE Head(s).len + SumLen(Tail(s))

RemoveAt(s, i) == SubSeq(s, 1, i - 1) \o SubSeq(s, i + 1, Len(s))

\* ------------------------------------------------------ signaling envelopes
\* An SDP string is identified by what made it: createOffer or createAnswer
\* of some connection ("X": a connection outside this session).
NoSdp == [made |-> "none", by |-> "none"]

Sdp(kind, c) == [made |-> kind, by |-> c]

NoCandidate == "none"

\* The local candidates a connection gathers: its host candidate.  A
\* candidate travels as the name of the client it belongs to ("X": a
\* candidate of no connection of this session, which cannot be added).
LocalCandidates == {"host"}

\* The parsed envelope {type, sessionId, sdp?, candidate?}; an absent field
\* is NoSdp / NoCandidate (undefined in the script).
Envelope(t, sid, sdp, cand) ==
    [type |-> t, sessionId |-> sid, sdp |-> sdp, candidate |-> cand]

NoMsg == Envelope("none", NoSession, NoSdp, NoCandidate)

\* A WebSocket message event: e.data is a string (wire = "text") or a Blob
\* (wire = "blob"); its text is JSON for `msg` (json = TRUE) or not JSON.
Payload(w, j, m) == [wire |-> w, json |-> j, msg |-> m]

\* JSON.stringify(envelope) sent with ws.send: a text frame.
JSONstringify(m) == Payload("text", TRUE, m)

\* A lenient parser: never throws, text that is not JSON yields an empty object
JSONparseLenient(p) == FALSE

\* JSON.parse(data): throws SyntaxError on text that is not JSON.
JSONparseThrows(p) == ~p.json

JSONparse(p) == p.msg

\* ------------------------------------------------------------------- files
\* A File: its name and size; the content is the byte range [0, size) of
\* source `name`.
File(n, s) == [name |-> n, size |-> s]

NoFile == File("", -1)

FileNames == {"a.bin"}

Remainders == {0, 1, 7232}

\* Sizes around the chunk boundary for none, one, two and MaxChunks full chunks
FileSizes == {k * CHUNK_SIZE + r : k \in {0, 1, 2, MaxChunks}, r \in Remainders}

Files == {File(n, s) : n \in FileNames, s \in FileSizes}

\* ------------------------------------------------------------------- state
VARIABLES
    fileToSend,            \* [c] the File picked on the page, or NoFile
    pageId,                \* [c] the ?id= parameter of the page's URL
    qrLink,                \* the session id of the join link rendered by renderQR
    sessionId,             \* [c] script global sessionId
    wsState,               \* [c] "none" | "connecting" | "open"
    toRelay,               \* [c] payloads written with ws.send, not yet at the relay
    inbox,                 \* [c] payloads the relay sent to c, not yet delivered
    blobPending,           \* [c] message events suspended at `await e.data.text()`
    lastEvent,             \* [c] what ws.onmessage did last: "none", "dropped", "handled"
    relaySessions,         \* relay: session id -> its participants
    relayWire,             \* relay: forwards messages as "text" or as "blob"
    pc,                    \* [c] the RTCPeerConnection: signalingState, descriptions
    pcOps,                 \* [c] the connection's operations chain (pending promises)
    candidatesLeft,        \* [c] the local candidates the platform has yet to report
    dc,                    \* [c] script global dc: NoDc, "created" or "remote"
    dcOpen,                \* [c] the channel's open event has fired
    sf,                    \* [c] sendFile's activation: position and locals
    written,               \* [c] the frames dc.send accepted at c, in order
    drained,               \* [c] how many of written[c] have left c's send buffer
    receivedChunks,        \* [c] script global receivedChunks with its two tags
    progressText,          \* [c] progressText.textContent as set by sendFile
    receiverProgressText,  \* [c] receiverProgressText.textContent
    downloads,             \* [c] the files saved by a.click(), in order
    console,               \* [c] the messages logged so far
    errors,                \* [c] rejected promises nobody handles
    sendFailures,          \* [c] how often dc.send has thrown
    strayEnvelopes,        \* envelopes delivered beyond the relay's forwarding
    strayFrames            \* channel messages delivered beyond the peer's sendFile

userVars == <<fileToSend, pageId, qrLink>>

wsVars == <<wsState, toRelay, inbox, blobPending, lastEvent>>

pcVars == <<pc, pcOps, candidatesLeft>>

dcVars == <<dc, dcOpen>>

sendVars == <<sf, written, drained, progressText, sendFailures>>

recvVars == <<receivedChunks, receiverProgressText, downloads>>

relayVars == <<relaySessions, relayWire>>

vars == <<userVars, sessionId, wsVars, relayVars, pcVars, dcVars, sendVars,
          recvVars, console, errors, strayEnvelopes, strayFrames>>

\* ------------------------------------------------------ connection values
NoPc == [signalingState |-> "none", local |-> NoSdp, remote |-> NoSdp, candidates |-> {}]

\* new RTCPeerConnection(...): signalingState starts "stable", no descriptions,
\* no remote candidates
NewPc == [signalingState |-> "stable", local |-> NoSdp, remote |-> NoSdp, candidates |-> {}]

NoDc == "none"

Op(k, sdp, cand) == [kind |-> k, sdp |-> sdp, candidate |-> cand]

\* ------------------------------------------------------------ percentages
\* The text written to a progress label: "<n>%", "NaN%" or "Infinity%";
\* "unset" while the script has not written it.
Pct(n) == [kind |-> "num", n |-> n]

PctUnset == [kind |-> "unset", n |-> 0]

PctNaN == [kind |-> "NaN", n |-> 0]

PctInfinity == [kind |-> "Infinity", n |-> 0]

\* sendFile's activation when it is not running
SfIdle == [at |-> "idle", offset |-> 0, chunkIndex |-> 0, from |-> 0, to |-> 0]

\* let receivedChunks = []: no expectedName / expectedSize property yet
EmptyChunks == [chunks |-> <<>>, tagged |-> FALSE, expectedName |-> "", expectedSize |-> 0]

Init ==
    /\ fileToSend = [c \in Clients |-> NoFile]
    /\ pageId = [c \in Clients |-> NoSession]
    /\ qrLink = NoSession
    /\ sessionId = [c \in Clients |-> NoSession]
    /\ wsState = [c \in Clients |-> "none"]
    /\ toRelay = [c \in Clients |-> <<>>]
    /\ inbox = [c \in Clients |-> <<>>]
    /\ blobPending = [c \in Clients |-> <<>>]
    /\ lastEvent = [c \in Clients |-> "none"]
    /\ relaySessions = [s \in SessionIds |-> {}]
    /\ relayWire \in {"text", "blob"}
    /\ pc = [c \in Clients |-> NoPc]
    /\ pcOps = [c \in Clients |-> <<>>]
    /\ candidatesLeft = [c \in Clients |-> LocalCandidates]
    /\ dc = [c \in Clients |-> NoDc]
    /\ dcOpen = [c \in Clients |-> FALSE]
    /\ sf = [c \in Clients |-> SfIdle]
    /\ written = [c \in Clients |-> <<>>]
    /\ drained = [c \in Clients |-> 0]
    /\ receivedChunks = [c \in Clients |-> EmptyChunks]
    /\ progressText = [c \in Clients |-> PctUnset]
    /\ receiverProgressText = [c \in Clients |-> PctUnset]
    /\ downloads = [c \in Clients |-> <<>>]
    /\ console = [c \in Clients |-> {}]
    /\ errors = [c \in Clients |-> {}]
    /\ sendFailures = [c \in Clients |-> 0]
    /\ strayEnvelopes = 0
    /\ strayFrames = 0

\* -------------------------------------------------------------- utilities
\* log(msg) / console.warn / console.error: the message is on the console
Log(c, m) == [console EXCEPT ![c] = @ \cup {m}]

\* ws.send(JSON.stringify(envelope))
WsSend(c, m) == [toRelay EXCEPT ![c] = Append(@, JSONstringify(m))]

\* ------------------------------------------------------ starting a client
\* fileInput 'change' listener: fileToSend = files[0]; startSender() runs up
\* to `await connectWS()`, which has constructed the WebSocket.
SelectFile(c, f) ==
    /\ wsState[c] = "none"
    /\ fileToSend' = [fileToSend EXCEPT ![c] = f]
    /\ wsState' = [wsState EXCEPT ![c] = "connecting"]
    /\ UNCHANGED <<pageId, qrLink, sessionId, toRelay, inbox, blobPending, lastEvent,
                   relayVars, pcVars, dcVars, sendVars, recvVars, console, errors,
                   strayEnvelopes, strayFrames>>

\* The page is opened from the join link: params.has('id'), startReceiver(id)
\* runs up to `await connectWS()`.
OpenJoinLink(c) ==
    /\ wsState[c] = "none"
    /\ qrLink # NoSession
    /\ pageId' = [pageId EXCEPT ![c] = qrLink]
    /\ wsState' = [wsState EXCEPT ![c] = "connecting"]
    /\ UNCHANGED <<fileToSend, qrLink, sessionId, toRelay, inbox, blobPending, lastEvent,
                   relayVars, pcVars, dcVars, sendVars, recvVars, console, errors,
                   strayEnvelopes, strayFrames>>

\* A startSender that calls sendFile() itself, right after createDataChannel():
\* the file is announced and dc.send throws on the channel that is not open.
StartSenderThenSend(c, sid) ==
    /\ wsState[c] = "connecting"
    /\ fileToSend[c] # NoFile
    /\ wsState' = [wsState EXCEPT ![c] = "open"]
    /\ pc' = [pc EXCEPT ![c] = NewPc]
    /\ dc' = [dc EXCEPT ![c] = "created"]
    /\ sessionId' = [sessionId EXCEPT ![c] = sid]
    /\ toRelay' = WsSend(c, Envelope("create-session", sid, NoSdp, NoCandidate))
    /\ qrLink' = sid
    /\ console' = [console EXCEPT ![c] = @ \cup {"Connected to signaling server", "Sending",
                                                 "Session created, waiting for receiver..."}]
    /\ errors' = [errors EXCEPT ![c] = @ \cup {"sendFile"}]
    /\ UNCHANGED <<fileToSend, pageId, inbox, blobPending, lastEvent, relayVars, pcOps,
                   candidatesLeft, dcOpen, sendVars, recvVars, strayEnvelopes, strayFrames>>

\* ws.onopen on the picking page: connectWS resolves and startSender goes on:
\* createPeer(), createDataChannel(), a fresh sessionId, create-session,
\* renderQR(link).
StartSender(c, sid) ==
    /\ wsState[c] = "connecting"
    /\ fileToSend[c] # NoFile
    /\ wsState' = [wsState EXCEPT ![c] = "open"]
    /\ pc' = [pc EXCEPT ![c] = NewPc]
    /\ dc' = [dc EXCEPT ![c] = "created"]
    /\ sessionId' = [sessionId EXCEPT ![c] = sid]
    /\ toRelay' = WsSend(c, Envelope("create-session", sid, NoSdp, NoCandidate))
    /\ qrLink' = sid
    /\ console' = [console EXCEPT ![c] = @ \cup {"Connected to signaling server",
                                                 "Session created, waiting for receiver..."}]
    /\ UNCHANGED <<fileToSend, pageId, inbox, blobPending, lastEvent, relayVars, pcOps,
                   candidatesLeft, dcOpen, sendVars, recvVars, errors,
                   strayEnvelopes, strayFrames>>

\* ws.onopen on the joining page: startReceiver goes on: sessionId = id,
\* createPeer(), join-session.
StartReceiver(c) ==
    /\ wsState[c] = "connecting"
    /\ pageId[c] # NoSession
    /\ wsState' = [wsState EXCEPT ![c] = "open"]
    /\ sessionId' = [sessionId EXCEPT ![c] = pageId[c]]
    /\ pc' = [pc EXCEPT ![c] = NewPc]
    /\ toRelay' = WsSend(c, Envelope("join-session", pageId[c], NoSdp, NoCandidate))
    /\ console' = [console EXCEPT ![c] = @ \cup {"Connected to signaling server",
                                                 "Joined session, waiting for offer..."}]
    /\ UNCHANGED <<userVars, inbox, blobPending, lastEvent, relayVars, pcOps,
                   candidatesLeft, dcVars, sendVars, recvVars, errors,
                   strayEnvelopes, strayFrames>>

\* -------------------------------------------------------------- the relay
\* What the relay forwards for one message of client c, and to whom:
\* session-joined to the session's creator side on a join, an offer, answer
\* or candidate to the other participants of the message's session.
RelayTargets(c, m) ==
    IF m.type = "join-session" THEN relaySessions[m.sessionId] \ {c}
    ELSE IF m.type \in {"offer", "answer", "ice-candidate"}
              /\ c \in relaySessions[m.sessionId]
         THEN relaySessions[m.sessionId] \ {c}
         ELSE {}

RelayForward(c, m) ==
    IF m.type = "join-session"
    THEN Envelope("session-joined", m.sessionId, NoSdp, NoCandidate)
    ELSE m

RelayStep(c) ==
    /\ toRelay[c] # <<>>
    /\ LET m == Head(toRelay[c]).msg IN
        /\ relaySessions' =
              IF m.type = "create-session"
                  THEN [relaySessions EXCEPT ![m.sessionId] = {c}]
              ELSE IF m.type = "join-session" /\ relaySessions[m.sessionId] # {}
                  THEN [relaySessions EXCEPT ![m.sessionId] = @ \cup {c}]
              ELSE relaySessions
        /\ inbox' = [d \in Clients |->
                       IF d \in RelayTargets(c, m)
                       THEN Append(inbox[d], Payload(relayWire, TRUE, RelayForward(c, m)))
                       ELSE inbox[d]]
    /\ toRelay' = [toRelay EXCEPT ![c] = Tail(@)]
    /\ UNCHANGED <<userVars, sessionId, wsState, blobPending, lastEvent, relayWire, pcVars,
                   dcVars, sendVars, recvVars, console, errors, strayEnvelopes, strayFrames>>

\* ---------------------------------------------------------- handleSignal
Enqueue(c, op) == [pcOps EXCEPT ![c] = Append(@, op)]

\* An `answer` branch without its guard
AnswerNeverDuplicate(c) == FALSE

\* The `answer` branch's guard: pc.signalingState === 'stable'
AnswerIsDuplicate(c) == pc[c].signalingState = "stable"

\* An `offer` branch without its guard
OfferNeverOwn(c) == FALSE

\* The `offer` branch's guard: if (dc)
OfferIsOwn(c) == dc[c] # NoDc

\* handleSignal(msg) up to its first await (or its return): what it logs and
\* which connection operation it starts.
HandleSignal(c, msg) ==
    IF msg.type = "session-joined" THEN
        /\ console' = Log(c, "Receiver connected, sending offer...")
        /\ pcOps' = Enqueue(c, Op("createOffer", NoSdp, NoCandidate))
    ELSE IF msg.type = "offer" /\ msg.sdp # NoSdp THEN
        IF OfferIsOwn(c) THEN
            /\ console' = Log(c, "Ignoring duplicate offer on sender side")
            /\ UNCHANGED pcOps
        ELSE
            /\ console' = Log(c, "Received offer from sender")
            /\ pcOps' = Enqueue(c, Op("setRemoteOffer", msg.sdp, NoCandidate))
    ELSE IF msg.type = "answer" /\ msg.sdp # NoSdp THEN
        IF AnswerIsDuplicate(c) THEN
            /\ console' = Log(c, "Ignoring duplicate answer (already stable)")
            /\ UNCHANGED pcOps
        ELSE
            /\ console' = Log(c, "Received answer, establishing connection...")
            /\ pcOps' = Enqueue(c, Op("setRemoteAnswer", msg.sdp, NoCandidate))
    ELSE IF msg.type = "ice-candidate" /\ msg.candidate # NoCandidate THEN
        /\ pcOps' = Enqueue(c, Op("addIceCandidate", NoSdp, msg.candidate))
        /\ UNCHANGED console
    ELSE UNCHANGED <<console, pcOps>>

\* The catch block of ws.onmessage
OnMessageCatch(c) ==
    /\ console' = Log(c, "Non-JSON WebSocket message ignored")
    /\ lastEvent' = [lastEvent EXCEPT ![c] = "dropped"]
    /\ UNCHANGED pcOps

\* ws.onmessage once the data is a string: JSON.parse, handleSignal(msg)
ParseAndHandle(c, p) ==
    IF JSONparseThrows(p)
    THEN OnMessageCatch(c)
    ELSE /\ lastEvent' = [lastEvent EXCEPT ![c] = "handled"]
         /\ HandleSignal(c, JSONparse(p))

\* ws.onmessage(e): a string is parsed at once, a Blob after `await e.data.text()`
WsOnMessage(c, p) ==
    IF p.wire = "blob"
    THEN /\ blobPending' = [blobPending EXCEPT ![c] = Append(@, p)]
         /\ UNCHANGED <<lastEvent, console, pcOps>>
    ELSE /\ ParseAndHandle(c, p)
         /\ UNCHANGED blobPending

\* The relay connection delivers its next message to c.
WsDeliver(c) ==
    /\ wsState[c] = "open"
    /\ inbox[c] # <<>>
    /\ WsOnMessage(c, Head(inbox[c]))
    /\ inbox' = [inbox EXCEPT ![c] = Tail(@)]
    /\ UNCHANGED <<userVars, sessionId, wsState, toRelay, relayVars, pc, candidatesLeft,
                   dcVars, sendVars, recvVars, errors, strayEnvelopes, strayFrames>>

\* e.data.text() resolves for one suspended message event; the platform
\* fixes no order among several pending reads.
BlobTextResolved(c, i) ==
    /\ i \in 1..Len(blobPending[c])
    /\ ParseAndHandle(c, blobPending[c][i])
    /\ blobPending' = [blobPending EXCEPT ![c] = RemoveAt(@, i)]
    /\ UNCHANGED <<userVars, sessionId, wsState, toRelay, inbox, relayVars, pc,
                   candidatesLeft, dcVars, sendVars, recvVars, errors,
                   strayEnvelopes, strayFrames>>

\* ------------------------------------------- RTCPeerConnection operations
\* How the platform may settle operation `op` in c's current signaling
\* state: "ok" or "reject" (InvalidStateError / OperationError).  An offer
\* applied as remote description in have-local-offer is rolled back to by
\* browsers that implement implicit rollback and rejected by the others.
OpOutcomes(c, op) ==
    LET st == pc[c].signalingState IN
    CASE op.kind = "createOffer" -> {"ok"}
      [] op.kind = "setLocalOffer" ->
            IF st \in {"stable", "have-local-offer"} THEN {"ok"} ELSE {"reject"}
      [] op.kind = "setRemoteOffer" ->
            IF st \in {"stable", "have-remote-offer"} THEN {"ok"}
            ELSE {"ok", "reject"}
      [] op.kind = "createAnswer" ->
            IF st = "have-remote-offer" THEN {"ok"} ELSE {"reject"}
      [] op.kind = "setLocalAnswer" ->
            IF st = "have-remote-offer" THEN {"ok"} ELSE {"reject"}
      [] op.kind = "setRemoteAnswer" ->
            IF st = "have-local-offer" THEN {"ok"} ELSE {"reject"}
      [] op.kind = "addIceCandidate" ->
            IF pc[c].remote # NoSdp /\ op.candidate \in Clients THEN {"ok"} ELSE {"reject"}

\* The connection after `op` has succeeded.
PcAfter(c, op) ==
    CASE op.kind = "setLocalOffer" ->
            [pc[c] EXCEPT !.signalingState = "have-local-offer", !.local = op.sdp]
      [] op.kind = "setRemoteOffer" ->
            [pc[c] EXCEPT !.signalingState = "have-remote-offer",
                          !.local = IF pc[c].signalingState = "have-local-offer"
                                    THEN NoSdp ELSE @,
                          !.remote = op.sdp]
      [] op.kind = "setLocalAnswer" ->
            [pc[c] EXCEPT !.signalingState = "stable", !.local = op.sdp]
      [] op.kind = "setRemoteAnswer" ->
            [pc[c] EXCEPT !.signalingState = "stable", !.remote = op.sdp]
      [] op.kind = "addIceCandidate" ->
            [pc[c] EXCEPT !.candidates = @ \cup {op.candidate}]
      [] OTHER -> pc[c]

\* handleSignal resumes after the awaited operation `op` has succeeded;
\* `rest` is the chain behind it.
ResumeHandleSignal(c, op, rest) ==
    CASE op.kind = "createOffer" ->
            \* const offer = await pc.createOffer(); pc.setLocalDescription(offer)
            /\ pcOps' = [pcOps EXCEPT ![c] =
                            Append(rest, Op("setLocalOffer", Sdp("offer", c), NoCandidate))]
            /\ UNCHANGED <<toRelay, console>>
      [] op.kind = "setLocalOffer" ->
            /\ toRelay' = WsSend(c, Envelope("offer", sessionId[c], op.sdp, NoCandidate))
            /\ pcOps' = [pcOps EXCEPT ![c] = rest]
            /\ UNCHANGED console
      [] op.kind = "setRemoteOffer" ->
            /\ pcOps' = [pcOps EXCEPT ![c] =
                            Append(rest, Op("createAnswer", NoSdp, NoCandidate))]
            /\ UNCHANGED <<toRelay, console>>
      [] op.kind = "createAnswer" ->
            /\ pcOps' = [pcOps EXCEPT ![c] =
                            Append(rest, Op("setLocalAnswer", Sdp("answer", c), NoCandidate))]
            /\ UNCHANGED <<toRelay, console>>
      [] op.kind = "setLocalAnswer" ->
            /\ toRelay' = WsSend(c, Envelope("answer", sessionId[c], op.sdp, NoCandidate))
            /\ console' = Log(c, "Answer sent back to sender")
            /\ pcOps' = [pcOps EXCEPT ![c] = rest]
      [] op.kind = "setRemoteAnswer" ->
            /\ console' = Log(c, "Peer connection established")
            /\ pcOps' = [pcOps EXCEPT ![c] = rest]
            /\ UNCHANGED toRelay
      [] OTHER ->
            /\ pcOps' = [pcOps EXCEPT ![c] = rest]
            /\ UNCHANGED <<toRelay, console>>

\* handleSignal with no try/catch around addIceCandidate: every rejected
\* await leaves handleSignal's promise rejected.
RejectUncaught(c, op, rest) ==
    /\ pcOps' = [pcOps EXCEPT ![c] = rest]
    /\ errors' = [errors EXCEPT ![c] = @ \cup {op.kind}]
    /\ UNCHANGED <<pc, toRelay, console>>

\* The awaited operation was rejected: addIceCandidate's rejection is caught
\* and logged; any other leaves handleSignal's promise rejected, unhandled.
RejectHandleSignal(c, op, rest) ==
    /\ pcOps' = [pcOps EXCEPT ![c] = rest]
    /\ IF op.kind = "addIceCandidate"
       THEN /\ console' = Log(c, "Error adding ICE candidate")
            /\ UNCHANGED errors
       ELSE /\ errors' = [errors EXCEPT ![c] = @ \cup {op.kind}]
            /\ UNCHANGED console
    /\ UNCHANGED <<pc, toRelay>>

\* The first operation of c's chain settles and the handleSignal call that
\* awaits it runs to its next await.
PcOpSettles(c) ==
    /\ pcOps[c] # <<>>
    /\ LET op == Head(pcOps[c])
           rest == Tail(pcOps[c]) IN
       \E o \in OpOutcomes(c, op) :
          IF o = "ok"
          THEN /\ pc' = [pc EXCEPT ![c] = PcAfter(c, op)]
               /\ ResumeHandleSignal(c, op, rest)
               /\ UNCHANGED errors
          ELSE RejectHandleSignal(c, op, rest)
    /\ UNCHANGED <<userVars, sessionId, wsState, inbox, blobPending, lastEvent, relayVars,
                   candidatesLeft, dcVars, sendVars, recvVars, strayEnvelopes, strayFrames>>

\* pc.onicecandidate with a candidate: the platform gathers once a local
\* description is set.
OnIceCandidate(c) ==
    /\ pc[c].local # NoSdp
    /\ \E k \in candidatesLeft[c] :
          candidatesLeft' = [candidatesLeft EXCEPT ![c] = @ \ {k}]
    /\ toRelay' = WsSend(c, Envelope("ice-candidate", sessionId[c], NoSdp, c))
    /\ UNCHANGED <<userVars, sessionId, wsState, inbox, blobPending, lastEvent, relayVars,
                   pc, pcOps, dcVars, sendVars, recvVars, console, errors,
                   strayEnvelopes, strayFrames>>

\* The offer/answer exchange between offerer o and its peer has completed:
\* each side holds its own description as local and the other's as remote.
ExchangeDone(o) ==
    /\ pc[o].signalingState = "stable"
    /\ pc[Peer(o)].signalingState = "stable"
    /\ pc[o].local = Sdp("offer", o)
    /\ pc[Peer(o)].remote = Sdp("offer", o)
    /\ pc[Peer(o)].local = Sdp("answer", Peer(o))
    /\ pc[o].remote = Sdp("answer", Peer(o))

\* The platform establishes the transport only after a completed exchange,
\* over a candidate pair: some side has been given a candidate of the other.
Connected ==
    /\ \E o \in Clients : ExchangeDone(o)
    /\ \E c \in Clients : Peer(c) \in pc[c].candidates

\* ------------------------------------------------------- channel messages
\* Number of decimal digits of n >= 0
RECURSIVE Digits(_)
Digits(n) == IF n < 10 THEN 1 ELSE 1 + Digits(n \div 10)

\* Length of JSON.stringify({ name, size }): {"name":"<name>","size":<size>}
MetaLen(n, s) == 19 + Len(n) + Digits(s)

\* A channel message: the metadata text, or a binary chunk holding bytes
\* [from, to) of source `src`; len is its byte length.
TextFrame(n, s) ==
    [kind |-> "text", name |-> n, size |-> s, src |-> "", from |-> 0, to |-> 0,
     len |-> MetaLen(n, s)]

BinaryFrame(src, a, b) ==
    [kind |-> "binary", name |-> "", size |-> 0, src |-> src, from |-> a, to |-> b,
     len |-> b - a]

\* A slice that is not clamped to the file's size: always end - start bytes
SliceUnclamped(f, start, end) == BinaryFrame(f.name, start, end)

\* file.slice(start, end): both ends are clamped to the file's size
Slice(f, start, end) ==
    BinaryFrame(f.name, Min(start, f.size), Min(end, f.size))

\* A byte sequence as the ranges of the sources it is made of, adjacent
\* ranges of one source joined: two byte sequences are equal iff these are.
Joined(bytes, fr) ==
    IF fr.to = fr.from THEN bytes
    ELSE IF bytes # <<>> /\ bytes[Len(bytes)].src = fr.src
                         /\ bytes[Len(bytes)].to = fr.from
         THEN [bytes EXCEPT ![Len(bytes)].to = fr.to]
         ELSE Append(bytes, [src |-> fr.src, from |-> fr.from, to |-> fr.to])

\* new Blob(chunks): the chunks' bytes one after the other (the bytes of
\* the chunks before the last are computed once, as the element of a set)
RECURSIVE Blob(_)
Blob(chunks) ==
    IF chunks = <<>> THEN <<>>
    ELSE CHOOSE bytes \in {Joined(front, chunks[Len(chunks)]) :
                              front \in {Blob(SubSeq(chunks, 1, Len(chunks) - 1))}} : TRUE

\* The bytes of a whole file
FileBytes(f) == Blob(<<BinaryFrame(f.name, 0, f.size)>>)

\* dc.bufferedAmount: the bytes of the messages accepted and not yet sent
BufferedAmount(c) == SumLen(SubSeq(written[c], drained[c] + 1, Len(written[c])))

\* Math.floor((num / den) * 100) as the label shows it
Percent(num, den) ==
    IF den = 0 THEN (IF num = 0 THEN PctNaN ELSE PctInfinity)
    ELSE Pct((num * 100) \div den)

\* --------------------------------------------------------------- sendFile
\* const totalChunks = Math.ceil(file.size / CHUNK_SIZE)
TotalChunks(f) == (f.size + CHUNK_SIZE - 1) \div CHUNK_SIZE

\* The loop test `while (offset < file.size)`: sendFile goes on to read the
\* next chunk, or leaves the loop and returns.
SfLoop(f, off, idx) ==
    [at |-> IF off < f.size THEN "read" ELSE "done",
     offset |-> off, chunkIndex |-> idx, from |-> 0, to |-> 0]

SfLoopLog(f, off) == IF off < f.size THEN {} ELSE {"File sent successfully!"}

\* sendFile() from its call to its first await; `con` is c's console when
\* it is called.
SendFile(c, con) ==
    IF fileToSend[c] = NoFile \/ dc[c] = NoDc
    THEN /\ console' = [console EXCEPT ![c] = con]
         /\ UNCHANGED <<sf, written>>
    ELSE LET f == fileToSend[c] IN
         /\ written' = [written EXCEPT ![c] = Append(@, TextFrame(f.name, f.size))]
         /\ sf' = [sf EXCEPT ![c] = SfLoop(f, 0, 0)]
         /\ console' = [console EXCEPT ![c] = con \cup {"Sending"} \cup SfLoopLog(f, 0)]

\* The chunk sendFile holds: read in this step when the slice's
\* arrayBuffer() has just resolved, kept across the buffer wait otherwise.
ChunkInHand(c) ==
    IF sf[c].at = "read"
    THEN Slice(fileToSend[c], sf[c].offset, sf[c].offset + CHUNK_SIZE)
    ELSE BinaryFrame(fileToSend[c].name, sf[c].from, sf[c].to)

\* sendFile is at the inner while: after the read, or after a 50 ms wait
AtBufferCheck(c) == sf[c].at \in {"read", "wait"}

\* A sendFile without flow control: the buffer is never looked at
BufferNeverFull(c) == FALSE

\* while (dc.bufferedAmount > 5 * CHUNK_SIZE)
BufferTooFull(c) == BufferedAmount(c) > BufferThreshold

\* The buffer is too full: sendFile suspends on the 50 ms timer.
SfWait(c) ==
    /\ AtBufferCheck(c)
    /\ BufferTooFull(c)
    /\ sf' = [sf EXCEPT ![c] = [@ EXCEPT !.at = "wait", !.from = ChunkInHand(c).from,
                                         !.to = ChunkInHand(c).to]]
    /\ UNCHANGED <<userVars, sessionId, wsVars, relayVars, pcVars, dcVars, written,
                   drained, progressText, sendFailures, recvVars, console, errors,
                   strayEnvelopes, strayFrames>>

\* offset after a chunk was written: offset += CHUNK_SIZE
OffsetAfterSend(c) == sf[c].offset + CHUNK_SIZE

\* dc.send(chunk) succeeds: offset and chunkIndex advance, the progress
\* label is updated, and the loop test runs.
SfSendOk(c) ==
    /\ AtBufferCheck(c)
    /\ ~BufferTooFull(c)
    /\ LET f == fileToSend[c]
           off == OffsetAfterSend(c) IN
        /\ written' = [written EXCEPT ![c] = Append(@, ChunkInHand(c))]
        /\ progressText' = [progressText EXCEPT ![c] = Percent(off, f.size)]
        /\ sf' = [sf EXCEPT ![c] = SfLoop(f, off, sf[c].chunkIndex + 1)]
        /\ console' = [console EXCEPT ![c] = @ \cup SfLoopLog(f, off)]
    /\ UNCHANGED <<userVars, sessionId, wsVars, relayVars, pcVars, dcVars, drained,
                   sendFailures, recvVars, errors, strayEnvelopes, strayFrames>>

\* A catch block that gives the failed chunk up: offset moves on to the next
SfAfterThrowSkips(c) ==
    [sf[c] EXCEPT !.at = "backoff", !.offset = @ + CHUNK_SIZE,
                  !.from = ChunkInHand(c).from, !.to = ChunkInHand(c).to]

\* sendFile's locals after dc.send(chunk) has thrown: nothing advanced
SfAfterThrow(c) ==
    [sf[c] EXCEPT !.at = "backoff", !.from = ChunkInHand(c).from, !.to = ChunkInHand(c).to]

\* dc.send(chunk) throws: the catch block logs and suspends on the 200 ms timer.
SfSendThrows(c) ==
    /\ AtBufferCheck(c)
    /\ ~BufferTooFull(c)
    /\ sendFailures[c] < MaxSendFailures
    /\ sendFailures' = [sendFailures EXCEPT ![c] = @ + 1]
    /\ sf' = [sf EXCEPT ![c] = SfAfterThrow(c)]
    /\ console' = Log(c, "Send failed, retrying chunk...")
    /\ UNCHANGED <<userVars, sessionId, wsVars, relayVars, pcVars, dcVars, written,
                   drained, progressText, recvVars, errors, strayEnvelopes, strayFrames>>

\* A retry that starts sendFile over: metadata again, offset back to 0
SfRetryFromStart(c) ==
    /\ sf[c].at = "backoff"
    /\ SendFile(c, console[c])
    /\ UNCHANGED <<userVars, sessionId, wsVars, relayVars, pcVars, dcVars,
                   drained, progressText, sendFailures, recvVars, errors,
                   strayEnvelopes, strayFrames>>

\* A retry that gives up: the 200 ms timer fires and sendFile returns
SfRetryGivesUp(c) ==
    /\ sf[c].at = "backoff"
    /\ sf' = [sf EXCEPT ![c] = [@ EXCEPT !.at = "done"]]
    /\ console' = Log(c, "Send failed")
    /\ UNCHANGED <<userVars, sessionId, wsVars, relayVars, pcVars, dcVars, written,
                   drained, progressText, sendFailures, recvVars, errors,
                   strayEnvelopes, strayFrames>>

\* The 200 ms timer fires: `continue` runs the loop test again.
SfRetry(c) ==
    /\ sf[c].at = "backoff"
    /\ sf' = [sf EXCEPT ![c] = SfLoop(fileToSend[c], sf[c].offset, sf[c].chunkIndex)]
    /\ console' = [console EXCEPT ![c] = @ \cup SfLoopLog(fileToSend[c], sf[c].offset)]
    /\ UNCHANGED <<userVars, sessionId, wsVars, relayVars, pcVars, dcVars, written,
                   drained, progressText, sendFailures, recvVars, errors,
                   strayEnvelopes, strayFrames>>

\* ---------------------------------------------------- handleIncomingChunk
\* receivedSize >= receivedChunks.expectedSize (false against undefined)
TransferComplete(rc, receivedSize) == rc.tagged /\ receivedSize >= rc.expectedSize

\* a.download = receivedChunks.expectedName || 'download.bin'
DownloadName(rc) ==
    IF ~rc.tagged \/ rc.expectedName = "" THEN "download.bin" ELSE rc.expectedName

\* Progress computed from the chunk just received instead of the total
PercentOfLastChunk(rc, receivedSize) ==
    IF rc.tagged THEN Percent(rc.chunks[Len(rc.chunks)].len, rc.expectedSize) ELSE PctNaN

\* The progress text after a chunk: a number divided by undefined is NaN
ReceivedPercent(rc, receivedSize) ==
    IF rc.tagged THEN Percent(receivedSize, rc.expectedSize) ELSE PctNaN

\* The metadata branch: a fresh accumulator tagged with name and size,
\* progress reset to 0%.
OnMetadata(c, meta) ==
    /\ receivedChunks' = [receivedChunks EXCEPT ![c] =
            [chunks |-> <<>>, tagged |-> TRUE,
             expectedName |-> meta.name, expectedSize |-> meta.size]]
    /\ receiverProgressText' = [receiverProgressText EXCEPT ![c] = Pct(0)]
    /\ console' = Log(c, "Receiving")
    /\ UNCHANGED downloads

\* The binary branch: push, recompute the total, show progress, and save
\* the file when the total has reached the expected size.
OnChunk(c, data) ==
    LET rc == [receivedChunks[c] EXCEPT !.chunks = Append(@, data)]
        receivedSize == SumLen(rc.chunks) IN
    /\ receivedChunks' = [receivedChunks EXCEPT ![c] = rc]
    /\ receiverProgressText' =
            [receiverProgressText EXCEPT ![c] = ReceivedPercent(rc, receivedSize)]
    /\ IF TransferComplete(rc, receivedSize)
       THEN /\ downloads' = [downloads EXCEPT ![c] =
                    Append(@, [name |-> DownloadName(rc), bytes |-> Blob(rc.chunks)])]
            /\ console' = Log(c, "File received and saved.")
       ELSE UNCHANGED <<downloads, console>>

HandleIncomingChunk(c, e) ==
    IF e.kind = "text" THEN OnMetadata(c, e) ELSE OnChunk(c, e)

\* ------------------------------------------------------ data channel events
\* pc.ondatachannel on the side that did not create the channel
OnDataChannel(c) ==
    /\ Connected
    /\ pc[c] # NoPc
    /\ dc[c] = NoDc
    /\ dc[Peer(c)] = "created"
    /\ dc' = [dc EXCEPT ![c] = "remote"]
    /\ UNCHANGED <<userVars, sessionId, wsVars, relayVars, pcVars, dcOpen, sendVars,
                   recvVars, console, errors, strayEnvelopes, strayFrames>>

\* dc.onopen as createDataChannel sets it: log, then sendFile()
OnOpenSender(c) ==
    /\ Connected
    /\ dc[c] = "created"
    /\ ~dcOpen[c]
    /\ dcOpen' = [dcOpen EXCEPT ![c] = TRUE]
    /\ SendFile(c, console[c] \cup {"Data channel open (sender)"})
    /\ UNCHANGED <<userVars, sessionId, wsVars, relayVars, pcVars, dc, drained,
                   progressText, sendFailures, recvVars, errors,
                   strayEnvelopes, strayFrames>>

\* dc.onopen as pc.ondatachannel sets it: log only
OnOpenReceiver(c) ==
    /\ Connected
    /\ dc[c] = "remote"
    /\ ~dcOpen[c]
    /\ dcOpen' = [dcOpen EXCEPT ![c] = TRUE]
    /\ console' = Log(c, "Data channel open (receiver)")
    /\ UNCHANGED <<userVars, sessionId, wsVars, relayVars, pcVars, dc, sendVars,
                   recvVars, errors, strayEnvelopes, strayFrames>>

\* The channel sends the oldest buffered message of c's peer and c's
\* dc.onmessage runs on it.
DcDeliver(c) ==
    /\ dc[c] # NoDc
    /\ drained[Peer(c)] < Len(written[Peer(c)])
    /\ drained' = [drained EXCEPT ![Peer(c)] = @ + 1]
    /\ HandleIncomingChunk(c, written[Peer(c)][drained[Peer(c)] + 1])
    /\ UNCHANGED <<userVars, sessionId, wsVars, relayVars, pcVars, dcVars, sf, written,
                   progressText, sendFailures, errors, strayEnvelopes, strayFrames>>

\* ------------------------------------------------ traffic from elsewhere
\* Envelopes that can reach client c beyond what the relay forwards once for
\* its session: a repeated or echoed envelope of the session ("s1", made by
\* a client of it), an envelope of another session ("s2", made by a foreign
\* connection "X"), and text that is not JSON.  They arrive the way the
\* relay's messages do.
StrayMessages(c) ==
    {Envelope("session-joined", "s1", NoSdp, NoCandidate),
     Envelope("offer", "s1", Sdp("offer", "A"), NoCandidate),
     Envelope("offer", "s2", Sdp("offer", "X"), NoCandidate),
     Envelope("answer", "s1", Sdp("answer", "B"), NoCandidate),
     Envelope("ice-candidate", "s1", NoSdp, Peer(c)),
     Envelope("ice-candidate", "s2", NoSdp, "X")}

StrayPayloads(c) ==
    {Payload(relayWire, TRUE, m) : m \in StrayMessages(c)}
    \cup {Payload(relayWire, FALSE, NoMsg)}

StrayEnvelope(c, p) ==
    /\ wsState[c] = "open"
    /\ strayEnvelopes < MaxStrayEnvelopes
    /\ strayEnvelopes' = strayEnvelopes + 1
    /\ WsOnMessage(c, p)
    /\ UNCHANGED <<userVars, sessionId, wsState, toRelay, inbox, relayVars, pc,
                   candidatesLeft, dcVars, sendVars, recvVars, errors, strayFrames>>

\* Channel messages a peer can send beyond one run of sendFile.
StrayFrameSet ==
    {TextFrame("b.bin", 1), BinaryFrame("stray", 0, 1), BinaryFrame("stray", 0, CHUNK_SIZE)}

StrayFrame(c, e) ==
    /\ dc[c] # NoDc
    /\ dcOpen[c]
    /\ strayFrames < MaxStrayFrames
    /\ strayFrames' = strayFrames + 1
    /\ HandleIncomingChunk(c, e)
    /\ UNCHANGED <<userVars, sessionId, wsVars, relayVars, pcVars, dcVars, sendVars,
                   errors, strayEnvelopes>>

\* ---------------------------------------------------------- specifications
\* One sender page, one receiver page, the relay and the platform.
Next ==
    \/ \E f \in Files : SelectFile("A", f)
    \/ \E sid \in FreshSessionIds : StartSender("A", sid)
    \/ OpenJoinLink("B")
    \/ StartReceiver("B")
    \/ \E c \in Clients : RelayStep(c)
    \/ \E c \in Clients : WsDeliver(c)
    \/ \E c \in Clients : \E i \in 1..Len(blobPending[c]) : BlobTextResolved(c, i)
    \/ \E c \in Clients : PcOpSettles(c)
    \/ \E c \in Clients : OnIceCandidate(c)
    \/ \E c \in Clients : OnDataChannel(c)
    \/ \E c \in Clients : OnOpenSender(c)
    \/ \E c \in Clients : OnOpenReceiver(c)
    \/ \E c \in Clients : SfWait(c)
    \/ \E c \in Clients : SfSendOk(c)
    \/ \E c \in Clients : SfSendThrows(c)
    \/ \E c \in Clients : SfRetry(c)
    \/ \E c \in Clients : DcDeliver(c)

Spec == Init /\ [][Next]_vars

\* The same system for one file of MaxChunks full chunks and a remainder,
\* where timers fire, reads resolve and the channel keeps sending: a write
\* that can succeed is eventually made, the 200 ms timer of a failed write
\* eventually fires, the receiving side gets its channel and buffered
\* messages eventually leave the buffer.  Write failures are finitely many
\* (MaxSendFailures).
LiveFiles == {File("a.bin", MaxChunks * CHUNK_SIZE + 7232)}

NextLive ==
    \/ \E f \in LiveFiles : SelectFile("A", f)
    \/ \E sid \in FreshSessionIds : StartSender("A", sid)
    \/ OpenJoinLink("B")
    \/ StartReceiver("B")
    \/ \E c \in Clients : RelayStep(c)
    \/ \E c \in Clients : WsDeliver(c)
    \/ \E c \in Clients : \E i \in 1..Len(blobPending[c]) : BlobTextResolved(c, i)
    \/ \E c \in Clients : PcOpSettles(c)
    \/ \E c \in Clients : OnIceCandidate(c)
    \/ \E c \in Clients : OnDataChannel(c)
    \/ \E c \in Clients : OnOpenSender(c)
    \/ \E c \in Clients : OnOpenReceiver(c)
    \/ \E c \in Clients : SfWait(c)
    \/ \E c \in Clients : SfSendOk(c)
    \/ \E c \in Clients : SfSendThrows(c)
    \/ \E c \in Clients : SfRetry(c)
    \/ \E c \in Clients : DcDeliver(c)

Fairness ==
    /\ WF_vars(\E c \in Clients : SfSendOk(c))
    /\ WF_vars(\E c \in Clients : SfRetry(c))
    /\ WF_vars(\E c \in Clients : OnDataChannel(c))
    /\ WF_vars(\E c \in Clients : DcDeliver(c))

SpecLive == Init /\ [][NextLive]_vars /\ Fairness

\* The same system for an empty file (sendFile writes the metadata and
\* returns), with stray envelopes reaching both clients.
SignalFiles == {File("a.bin", 0)}

NextSignal ==
    \/ \E f \in SignalFiles : SelectFile("A", f)
    \/ \E sid \in FreshSessionIds : StartSender("A", sid)
    \/ OpenJoinLink("B")
    \/ StartReceiver("B")
    \/ \E c \in Clients : RelayStep(c)
    \/ \E c \in Clients : WsDeliver(c)
    \/ \E c \in Clients : \E i \in 1..Len(blobPending[c]) : BlobTextResolved(c, i)
    \/ \E c \in Clients : PcOpSettles(c)
    \/ \E c \in Clients : OnIceCandidate(c)
    \/ \E c \in Clients : OnDataChannel(c)
    \/ \E c \in Clients : OnOpenSender(c)
    \/ \E c \in Clients : OnOpenReceiver(c)
    \/ \E c \in Clients : DcDeliver(c)
    \/ \E c \in Clients : \E p \in StrayPayloads(c) : StrayEnvelope(c, p)

SpecSignal == Init /\ [][NextSignal]_vars

\* The same system for two small files, with stray channel messages
\* reaching both clients.
FrameFiles == {File("a.bin", 1), File("a.bin", 2 * CHUNK_SIZE + 7232)}

NextFrames ==
    \/ \E f \in FrameFiles : SelectFile("A", f)
    \/ \E sid \in FreshSessionIds : StartSender("A", sid)
    \/ OpenJoinLink("B")
    \/ StartReceiver("B")
    \/ \E c \in Clients : RelayStep(c)
    \/ \E c \in Clients : WsDeliver(c)
    \/ \E c \in Clients : \E i \in 1..Len(blobPending[c]) : BlobTextResolved(c, i)
    \/ \E c \in Clients : PcOpSettles(c)
    \/ \E c \in Clients : OnIceCandidate(c)
    \/ \E c \in Clients : OnDataChannel(c)
    \/ \E c \in Clients : OnOpenSender(c)
    \/ \E c \in Clients : OnOpenReceiver(c)
    \/ \E c \in Clients : SfSendOk(c)
    \/ \E c \in Clients : SfSendThrows(c)
    \/ \E c \in Clients : SfRetry(c)
    \/ \E c \in Clients : DcDeliver(c)
    \/ \E c \in Clients : \E e \in StrayFrameSet : StrayFrame(c, e)

SpecFrames == Init /\ [][NextFrames]_vars

\* ------------------------------------------------------------------ claims
IsBinary(e) == e.kind = "binary"

\* The binary frames dc.send accepted at c, in order
BinaryFrames(c) == SelectSeq(written[c], IsBinary)

FrameLengths(frames) == [i \in 1..Len(frames) |-> frames[i].len]

SendFileReturned(c) == sf[c].at = "done"

\* C1: one run of sendFile writes exactly ceil(S / CHUNK_SIZE) binary frames,
\* none longer than CHUNK_SIZE, whose lengths add up to S, whatever buffer
\* waits and failed writes happen on the way; a 40000-byte file goes out as
\* frames of 16384, 16384 and 7232 bytes.
C1_FramesCoverTheFile ==
    \A c \in Clients :
        /\ \A i \in 1..Len(BinaryFrames(c)) : BinaryFrames(c)[i].len <= CHUNK_SIZE
        /\ SendFileReturned(c) =>
              /\ Len(BinaryFrames(c)) = TotalChunks(fileToSend[c])
              /\ SumLen(BinaryFrames(c)) = fileToSend[c].size
              /\ fileToSend[c].size = 40000 =>
                    FrameLengths(BinaryFrames(c)) = <<16384, 16384, 7232>>

\* A 40000-byte file has been sent in three frames although a write failed.
C1_Witness ==
    /\ SendFileReturned("A")
    /\ fileToSend["A"].size = 40000
    /\ sendFailures["A"] > 0
    /\ FrameLengths(BinaryFrames("A")) = <<16384, 16384, 7232>>

\* Every frame c wrote has left its buffer and been handled by the peer
AllDelivered(c) == drained[c] = Len(written[c])

\* The file as the receiver must save it
SavedFile(f) == [name |-> f.name, bytes |-> FileBytes(f)]

\* C2: for every file size, 0 and exact multiples of CHUNK_SIZE included,
\* once the frames of sendFile have been delivered in order the receiver has
\* completed: it has saved one file with the name and the bytes of the
\* original; for size 0 that is the case as soon as the metadata message has
\* been handled.
C2_ReceiverRebuildsTheFile ==
    \A c \in Clients :
        (SendFileReturned(c) /\ AllDelivered(c)) =>
            downloads[Peer(c)] = <<SavedFile(fileToSend[c])>>

\* The number of file bytes dc.send has accepted at c
BytesWritten(c) == SumLen(BinaryFrames(c))

\* C3: progress never exceeds 100 and is 100 at completion: the sender's
\* label shows floor(bytesWritten / size * 100) after each chunk written,
\* the receiver's label shows 100 when it saves the file, for every size > 0.
C3_ProgressEndsAtHundred ==
    \A c \in Clients :
        /\ progressText[c] # PctUnset =>
              /\ progressText[c] = Percent(BytesWritten(c), fileToSend[c].size)
              /\ progressText[c].n <= 100
        /\ (SendFileReturned(c) /\ fileToSend[c].size > 0) => progressText[c] = Pct(100)
        /\ (downloads[c] # <<>> /\ receivedChunks[c].expectedSize > 0) =>
              receiverProgressText[c] = Pct(100)

SendFileEntered(c) ==
    \/ "Sending" \in console[c]
    \/ written[c] # <<>>
    \/ sf[c] # SfIdle

\* C6: nothing is written to the data channel, and sendFile is not entered,
\* before the offer/answer exchange has completed on both sides and the
\* sender's channel has opened.
C6_NoFrameBeforeConnected ==
    \A c \in Clients :
        SendFileEntered(c) => (ExchangeDone(c) /\ dc[c] = "created" /\ dcOpen[c])

\* The sender has written metadata and a chunk after a completed exchange.
C6_Witness ==
    /\ Len(written["A"]) >= 2
    /\ ExchangeDone("A")
    /\ relaySessions["s1"] = {"A", "B"}

\* C9: the metadata text frame is written exactly once per transfer and is
\* the first frame on the channel: every later frame is a binary chunk,
\* also after a retried chunk.
C9_MetadataOnceAndFirst ==
    \A c \in Clients :
        /\ written[c] # <<>> =>
              /\ written[c][1] = TextFrame(fileToSend[c].name, fileToSend[c].size)
              /\ \A i \in 2..Len(written[c]) : written[c][i].kind = "binary"
        /\ SendFileReturned(c) => written[c] # <<>>

\* A transfer with a retried chunk has finished with metadata and chunks written.
C9_Witness ==
    /\ SendFileReturned("A")
    /\ sendFailures["A"] > 0
    /\ Len(written["A"]) >= 3

\* In this step ws.onmessage of c has the text `p` of a message event in
\* hand: a string just delivered (by the relay or from elsewhere), or a Blob
\* whose text() just resolved.  Every such step on a text satisfying Cond
\* satisfies Effect.
OnEveryMessage(c, Cond(_, _), Effect(_, _)) ==
    /\ (/\ inbox[c] # <<>>
        /\ Head(inbox[c]).wire = "text"
        /\ Cond(c, Head(inbox[c]))
        /\ WsDeliver(c)) => Effect(c, Head(inbox[c]))
    /\ \A p \in StrayPayloads(c) :
          (p.wire = "text" /\ Cond(c, p) /\ StrayEnvelope(c, p)) => Effect(c, p)
    /\ \A i \in 1..Len(blobPending[c]) :
          (Cond(c, blobPending[c][i]) /\ BlobTextResolved(c, i))
              => Effect(c, blobPending[c][i])

\* Everything of a client's session and connection, and what it has sent
sessionVars == <<userVars, sessionId, wsState, toRelay, relayVars, pcVars, dcVars,
                 sendVars, recvVars, errors>>

IsAnswer(c, p) == p.json /\ p.msg.type = "answer" /\ p.msg.sdp # NoSdp

AnswerEffect(c, p) ==
    IF pc[c].signalingState = "stable"
    THEN UNCHANGED sessionVars
    ELSE pcOps' = [pcOps EXCEPT ![c] = Append(@, Op("setRemoteAnswer", p.msg.sdp, NoCandidate))]

\* C5: an `answer` envelope handled while the connection's signaling state
\* is stable changes nothing: no setRemoteDescription call, no state or
\* session variable changed, nothing sent, no error; handled in any other
\* state it is applied with setRemoteDescription.
C5_AnswerWhileStableIsNoOp ==
    [][\A c \in Clients : OnEveryMessage(c, IsAnswer, AnswerEffect)]_vars

\* The sender has ignored an answer while stable and holds the receiver's
\* answer as remote description, without any error.
C5_Witness ==
    /\ "Ignoring duplicate answer (already stable)" \in console["A"]
    /\ pc["A"].signalingState = "stable"
    /\ pc["A"].remote = Sdp("answer", "B")
    /\ errors["A"] = {}

IsNotJson(c, p) == ~p.json

IsJson(c, p) == p.json

DropEffect(c, p) ==
    /\ UNCHANGED sessionVars
    /\ console' = Log(c, "Non-JSON WebSocket message ignored")
    /\ lastEvent'[c] = "dropped"

HandleEffect(c, p) ==
    /\ lastEvent'[c] = "handled"
    /\ HandleSignal(c, p.msg)

\* C7: a signaling message that is not JSON is dropped with a warning and
\* changes nothing of the session or the connection, and the stream goes on:
\* every message that is JSON, also one after a dropped message, is parsed
\* and passed to handleSignal.
C7_MalformedIsDropped ==
    [][\A c \in Clients :
          /\ OnEveryMessage(c, IsNotJson, DropEffect)
          /\ OnEveryMessage(c, IsJson, HandleEffect)]_vars

\* A client has dropped a message that is not JSON and has passed a later
\* message to handleSignal.
C7_Witness ==
    \E c \in Clients :
        /\ "Non-JSON WebSocket message ignored" \in console[c]
        /\ lastEvent[c] = "handled"
        /\ pcOps[c] # <<>>

IsOfOtherSession(c, p) ==
    /\ p.json
    /\ p.msg.type \in {"session-joined", "offer", "answer", "ice-candidate"}
    /\ p.msg.sessionId # sessionId[c]

IgnoredEffect(c, p) == UNCHANGED <<pc, pcOps, toRelay>>

\* C8: an envelope whose sessionId is not the client's active sessionId is
\* not processed: it starts no connection operation, changes no connection
\* state and sends nothing.
C8_OtherSessionIsIgnored ==
    [][\A c \in Clients : OnEveryMessage(c, IsOfOtherSession, IgnoredEffect)]_vars

\* The receiver has saved a file and its accumulator still covers the
\* expected size
TransferFinished(c) ==
    /\ downloads[c] # <<>>
    /\ receivedChunks[c].tagged
    /\ SumLen(receivedChunks[c].chunks) >= receivedChunks[c].expectedSize

\* C10: when a transfer completes the accumulator is consumed and discarded,
\* and afterwards no chunk is accepted: a later binary frame is not appended
\* and no second file is saved for the transfer.
C10_NothingAfterCompletion ==
    [][\A c \in Clients :
          /\ downloads'[c] # downloads[c] => receivedChunks'[c].chunks = <<>>
          /\ TransferFinished(c) =>
                /\ downloads'[c] = downloads[c]
                /\ receivedChunks'[c].chunks \in {receivedChunks[c].chunks, <<>>}]_vars

\* handleIncomingChunk holds a tagged accumulator that has not reached the
\* expected size: metadata has arrived, the transfer is not complete
TransferRunning(c) ==
    /\ receivedChunks[c].tagged
    /\ SumLen(receivedChunks[c].chunks) < receivedChunks[c].expectedSize

\* In this step dc.onmessage of c runs on a text message
TextMessageHandled(c) ==
    \/ /\ drained[Peer(c)] < Len(written[Peer(c)])
       /\ written[Peer(c)][drained[Peer(c)] + 1].kind = "text"
       /\ DcDeliver(c)
    \/ \E e \in StrayFrameSet : e.kind = "text" /\ StrayFrame(c, e)

\* C11: a text message that arrives after the metadata and before
\* completion does not touch the accumulator: the chunks received so far,
\* expectedName and expectedSize stay as they are.
C11_LaterTextIsRejected ==
    [][\A c \in Clients :
          (TransferRunning(c) /\ TextMessageHandled(c))
              => receivedChunks'[c] = receivedChunks[c]]_vars

\* The i-th chunk of file f: bytes [(i-1) * CHUNK_SIZE, i * CHUNK_SIZE) cut
\* at the file's end
ChunkAt(f, i) == Slice(f, (i - 1) * CHUNK_SIZE, i * CHUNK_SIZE)

\* C12: a failed write advances nothing and drops nothing: at every moment
\* the binary frames written are the file's first chunks in order, without
\* gap or duplicate, offset stands right behind the last chunk written, and
\* the chunk kept across a failed write or a buffer wait is the next one.
C12_RetrySendsTheSameChunk ==
    \A c \in Clients :
        /\ \A i \in 1..Len(BinaryFrames(c)) :
              BinaryFrames(c)[i] = ChunkAt(fileToSend[c], i)
        /\ sf[c].at # "idle" => sf[c].offset = Len(BinaryFrames(c)) * CHUNK_SIZE
        /\ sf[c].at \in {"read", "wait", "backoff"} =>
              ChunkInHand(c) = ChunkAt(fileToSend[c], Len(BinaryFrames(c)) + 1)

\* A file of exactly two chunks has gone out as its two chunks although a
\* write failed on the way.
C12_Witness ==
    /\ fileToSend["A"].size = 2 * CHUNK_SIZE
    /\ sendFailures["A"] > 0
    /\ SendFileReturned("A")
    /\ BinaryFrames("A") = <<ChunkAt(fileToSend["A"], 1), ChunkAt(fileToSend["A"], 2)>>

Negotiated(c) ==
    /\ pc[c].signalingState = "stable"
    /\ pc[c].local # NoSdp
    /\ pc[c].remote # NoSdp

\* C14: once a connection has reached stable through a negotiation it stays
\* stable, and no handleSignal call starts another negotiation on it (no
\* createOffer, no offer applied as remote description), whatever envelopes
\* arrive, repeated session-joined, offer and answer included.
C14_StableIsFinal ==
    [][\A c \in Clients :
          Negotiated(c) =>
              /\ pc'[c].signalingState = "stable"
              /\ Len(pcOps'[c]) > Len(pcOps[c]) =>
                    pcOps'[c][Len(pcOps'[c])].kind \notin {"createOffer", "setRemoteOffer"}]_vars

\* The calls a handleSignal invocation makes when it resumes after an await
ContinuationKinds == {"setLocalOffer", "createAnswer", "setLocalAnswer"}

\* C15: envelopes are handled one after the other: when a handleSignal call
\* resumes after an await and makes its next connection call, no call of a
\* handler started for a later envelope is ahead of it in the connection's
\* operations chain, so every effect of the earlier envelope comes first.
C15_HandledInArrivalOrder ==
    \A c \in Clients :
        \A i \in 2..Len(pcOps[c]) : pcOps[c][i].kind \notin ContinuationKinds

IsOffer(c, p) == p.json /\ p.msg.type = "offer" /\ p.msg.sdp # NoSdp

ApplyOffer(c, p) ==
    pcOps' = [pcOps EXCEPT ![c] = Append(@, Op("setRemoteOffer", p.msg.sdp, NoCandidate))]

\* The offer is ignored by a client that holds a data channel, created or
\* received, and applied by a client that holds none
OfferEffect(c, p) ==
    IF dc[c] # NoDc THEN UNCHANGED sessionVars ELSE ApplyOffer(c, p)

\* The offer is ignored by a client that created a data channel and applied
\* by every other client
OfferEffectByRole(c, p) ==
    IF dc[c] = "created" THEN UNCHANGED sessionVars ELSE ApplyOffer(c, p)

\* An applied offer is answered: createAnswer follows the offer set as
\* remote description, and the `answer` envelope is sent when the answer
\* has been set as local description.
OfferIsAnswered(c) ==
    /\ (pc'[c].remote # pc[c].remote /\ pc'[c].remote.made = "offer") =>
          /\ pcOps'[c] # <<>>
          /\ pcOps'[c][Len(pcOps'[c])].kind = "createAnswer"
    /\ (pc'[c].local # pc[c].local /\ pc'[c].local.made = "answer") =>
          toRelay'[c] = Append(toRelay[c],
              JSONstringify(Envelope("answer", sessionId[c], pc'[c].local, NoCandidate)))

SendFileRunning(c) == sf[c].at \in {"read", "wait", "backoff"}

\* sendFile has written every chunk and logged the end of the transfer
SendFileCompleted(c) ==
    /\ SendFileReturned(c)
    /\ Len(BinaryFrames(c)) = TotalChunks(fileToSend[c])
    /\ "File sent successfully!" \in console[c]

\* C17: when the buffer keeps draining and write failures are finitely
\* many, a running sendFile writes its last chunk and logs the end of the
\* transfer; a failed write never ends the loop and never raises an error:
\* sendFile backs off and comes back to the loop with the same offset.
C17_TransferRunsToCompletion ==
    /\ \A c \in Clients : SendFileRunning(c) ~> SendFileCompleted(c)
    /\ [][\A c \in Clients :
            /\ sendFailures'[c] # sendFailures[c] =>
                  /\ sf'[c].at = "backoff"
                  /\ sf'[c].offset = sf[c].offset
                  /\ written'[c] = written[c]
                  /\ errors'[c] = errors[c]
            /\ (sf[c].at = "backoff" /\ sf'[c] # sf[c]) =>
                  /\ sf'[c].at = "read"
                  /\ sf'[c].offset = sf[c].offset
                  /\ errors'[c] = errors[c]]_vars

\* sendFile has completed a transfer of several chunks in which it waited
\* out a failed write.
C17_Witness ==
    /\ SendFileCompleted("A")
    /\ "Send failed, retrying chunk..." \in console["A"]
    /\ Len(BinaryFrames("A")) = MaxChunks + 1

\* An awaited addIceCandidate of c is rejected in this step.
AddIceCandidateFails(c) ==
    /\ pcOps[c] # <<>>
    /\ Head(pcOps[c]).kind = "addIceCandidate"
    /\ "ok" \notin OpOutcomes(c, Head(pcOps[c]))
    /\ pcOps'[c] = Tail(pcOps[c])

\* C18: a rejected addIceCandidate is caught and logged: the connection,
\* the session id and the relay connection are as before, nothing is sent,
\* no error escapes handleSignal, and the calls chained behind it by later
\* envelopes are all still pending.
C18_IceFailureIsNonFatal ==
    [][\A c \in Clients :
          AddIceCandidateFails(c) =>
             /\ console'[c] = console[c] \cup {"Error adding ICE candidate"}
             /\ pc' = pc
             /\ sessionId' = sessionId
             /\ wsState' = wsState
             /\ toRelay' = toRelay
             /\ errors' = errors
             /\ inbox' = inbox
             /\ blobPending' = blobPending]_vars

\* After a rejected addIceCandidate on c the exchange has completed, a
\* later candidate has been added and no error was raised on c.
C18_Witness ==
    \E c \in Clients :
       /\ "Error adding ICE candidate" \in console[c]
       /\ \E o \in Clients : ExchangeDone(o)
       /\ Peer(c) \in pc[c].candidates
       /\ errors[c] = {}

\* c was started with startReceiver
StartedAsReceiver(c) == "Joined session, waiting for offer..." \in console[c]

\* C19: a client started with startReceiver never calls createOffer, never
\* sets an offer as its local description and never sends an `offer`
\* envelope, whatever envelopes reach its handleSignal.
C19_ReceiverNeverOffers ==
    \A c \in Clients :
       StartedAsReceiver(c) =>
          /\ \A i \in 1..Len(pcOps[c]) :
                 pcOps[c][i].kind \notin {"createOffer", "setLocalOffer"}
          /\ \A i \in 1..Len(toRelay[c]) :
                 ~(toRelay[c][i].json /\ toRelay[c][i].msg.type = "offer")
          /\ pc[c].local.made # "offer"

\* A handleSignal call of c is awaiting setRemoteDescription({type: 'answer'})
AnswerPending(c) ==
    \E i \in 1..Len(pcOps[c]) : pcOps[c][i].kind = "setRemoteAnswer"

\* c holds an answer as its remote description
AnswerApplied(c) == pc[c].remote.made = "answer"

\* C20: once a handleSignal call of a client has called
\* setRemoteDescription with an answer, pending or applied, no handleSignal
\* call of that client calls it again, also when the second `answer`
\* arrives while the first call is still awaited.
C20_AnswerAppliedAtMostOnce ==
    [][\A c \in Clients :
          (AnswerPending(c) \/ AnswerApplied(c)) =>
              ~(/\ Len(pcOps'[c]) > Len(pcOps[c])
                /\ pcOps'[c][Len(pcOps'[c])].kind = "setRemoteAnswer")]_vars

====
